---- MODULE Spec2Model ----
(***************************************************************************)
(* AddDistributor page (src/pages/AddDistributor.jsx): the record list     *)
(* kept in React state and mirrored to localStorage, and the form that     *)
(* creates records.                                                        *)
(*                                                                         *)
(* Strings are sequences of one-character strings, so that trim() and the  *)
(* JSON text are computed and not assumed.  A module key and the seed      *)
(* record's texts are written as one symbol each.  The text kept under     *)
(* STORAGE_KEY is a sequence of JSON tokens.                               *)
(***************************************************************************)
EXTENDS Integers, Sequences, FiniteSets, TLC

\* ------------------------------------------------------------------ bounds

\* Longest record list the model lets handleSave build.
MaxRecords == 3
\* Largest id the model lets handleSave assign.
MaxId == 3
\* Most form resets (setTimeout callbacks) pending at once.
MaxTimers == 1

\* ------------------------------------------------------------- constants

ACCESS_MODULES ==
    { <<"dailySales">>, <<"digitalPayments">>, <<"cashPayments">>,
      <<"outlets">>, <<"reports">> }

SAMPLE ==
    << [ id       |-> 1,
         fullName |-> <<"Karthik Rao">>,
         phone    |-> <<"+91 98765 12345">>,
         username |-> <<"karthik.rao">>,
         module   |-> <<"dailySales">> ] >>

\* ---------------------------------------------------------------- strings

\* String.prototype.trim: drop leading and trailing white space.
RECURSIVE TrimLeft(_)
TrimLeft(s) ==
    IF s # <<>> /\ Head(s) = " " THEN TrimLeft(Tail(s)) ELSE s

RECURSIVE TrimRight(_)
TrimRight(s) ==
    IF s # <<>> /\ s[Len(s)] = " " THEN TrimRight(SubSeq(s, 1, Len(s) - 1)) ELSE s

Trim(s) == TrimRight(TrimLeft(s))

\* ------------------------------------------------------------------- JSON

DigitTokens == <<"0", "1", "2", "3", "4", "5", "6", "7", "8", "9">>

IsDigit(t) == \E i \in 1..10 : DigitTokens[i] = t

DigitValue(t) == (CHOOSE i \in 1..10 : DigitTokens[i] = t) - 1

\* The decimal text of a non-negative integer.
RECURSIVE NumberText(_)
NumberText(n) ==
    IF n < 10 THEN << DigitTokens[n + 1] >>
    ELSE NumberText(n \div 10) \o << DigitTokens[(n % 10) + 1] >>

StringText(s) == <<"\"">> \o s \o <<"\"">>

\* JSON.stringify of one record: the keys in the order newDist lists them.
RecordText(d) ==
    <<"{">> \o StringText(<<"id">>) \o <<":">> \o NumberText(d.id)
    \o <<",">> \o StringText(<<"fullName">>) \o <<":">> \o StringText(d.fullName)
    \o <<",">> \o StringText(<<"phone">>) \o <<":">> \o StringText(d.phone)
    \o <<",">> \o StringText(<<"username">>) \o <<":">> \o StringText(d.username)
    \o <<",">> \o StringText(<<"module">>) \o <<":">> \o StringText(d.module)
    \o <<"}">>

RECURSIVE RecordsText(_)
RecordsText(list) ==
    IF list = <<>> THEN <<>>
    ELSE IF Len(list) = 1 THEN RecordText(list[1])
    ELSE RecordText(list[1]) \o <<",">> \o RecordsText(Tail(list))

\* JSON.stringify(distributors)
Stringify(list) == <<"[">> \o RecordsText(list) \o <<"]">>

\* The parser's results: ok is FALSE where JSON.parse throws SyntaxError;
\* next is the position after what was read.
Failed == [ok |-> FALSE, val |-> <<>>, next |-> 0]

RECURSIVE ParseDigits(_, _, _)
ParseDigits(t, i, acc) ==
    IF i <= Len(t) /\ IsDigit(t[i])
    THEN ParseDigits(t, i + 1, acc * 10 + DigitValue(t[i]))
    ELSE [ok |-> TRUE, val |-> acc, next |-> i]

ParseNumber(t, i) ==
    IF i <= Len(t) /\ IsDigit(t[i])
    THEN IF t[i] = "0" /\ i < Len(t) /\ IsDigit(t[i + 1]) THEN Failed
         ELSE ParseDigits(t, i, 0)
    ELSE Failed

RECURSIVE ParseChars(_, _, _)
ParseChars(t, i, acc) ==
    IF i > Len(t) THEN Failed
    ELSE IF t[i] = "\"" THEN [ok |-> TRUE, val |-> acc, next |-> i + 1]
    ELSE ParseChars(t, i + 1, Append(acc, t[i]))

ParseString(t, i) ==
    IF i <= Len(t) /\ t[i] = "\"" THEN ParseChars(t, i + 1, <<>>) ELSE Failed

\* A member's value: a number or a string.
ParseScalar(t, i) ==
    IF i <= Len(t) /\ t[i] = "\"" THEN ParseString(t, i) ELSE ParseNumber(t, i)

\* The members of an object after its "{": key : value , ... }
\* acc is the sequence of <<key, value>> read so far.
RECURSIVE ParseMembers(_, _, _)
ParseMembers(t, i, acc) ==
    LET k == ParseString(t, i) IN
    IF ~k.ok \/ k.next > Len(t) \/ t[k.next] # ":" THEN Failed
    ELSE LET v == ParseScalar(t, k.next + 1) IN
         IF ~v.ok \/ v.next > Len(t) THEN Failed
         ELSE LET more == Append(acc, <<k.val, v.val>>) IN
              IF t[v.next] = "," THEN ParseMembers(t, v.next + 1, more)
              ELSE IF t[v.next] = "}"
                   THEN [ok |-> TRUE, val |-> more, next |-> v.next + 1]
                   ELSE Failed

\* The object a member list denotes: a later member of the same key wins.
ObjectOf(members) ==
    LET keys == { members[j][1][1] : j \in 1..Len(members) }
        last(k) == CHOOSE j \in 1..Len(members) :
                      /\ members[j][1][1] = k
                      /\ \A h \in 1..Len(members) : members[h][1][1] = k => h <= j
    IN [ k \in keys |-> members[last(k)][2] ]

ParseObject(t, i) ==
    IF i > Len(t) \/ t[i] # "{" THEN Failed
    ELSE IF i + 1 <= Len(t) /\ t[i + 1] = "}"
         THEN [ok |-> TRUE, val |-> <<>>, next |-> i + 2]
         ELSE ParseMembers(t, i + 1, <<>>)

\* The elements of an array after its "[": object , ... ]
RECURSIVE ParseElements(_, _, _)
ParseElements(t, i, acc) ==
    LET o == ParseObject(t, i) IN
    IF ~o.ok \/ o.next > Len(t) THEN Failed
    ELSE LET more == Append(acc, ObjectOf(o.val)) IN
         IF t[o.next] = "," THEN ParseElements(t, o.next + 1, more)
         ELSE IF t[o.next] = "]"
              THEN [ok |-> TRUE, val |-> more, next |-> o.next + 1]
              ELSE Failed

ParseArray(t, i) ==
    IF i > Len(t) \/ t[i] # "[" THEN Failed
    ELSE IF i + 1 <= Len(t) /\ t[i + 1] = "]"
         THEN [ok |-> TRUE, val |-> <<>>, next |-> i + 2]
         ELSE ParseElements(t, i + 1, <<>>)

\* JSON.parse(raw): ok is FALSE where it throws; isArray is Array.isArray of
\* the value; val is the value when it is an array.
JSONParse(raw) ==
    LET whole(r, arr) ==
            IF r.ok /\ r.next = Len(raw) + 1
            THEN [ok |-> TRUE, isArray |-> arr, val |-> IF arr THEN r.val ELSE <<>>]
            ELSE [ok |-> FALSE, isArray |-> FALSE, val |-> <<>>]
    IN IF raw = <<>> THEN whole(Failed, FALSE)
       ELSE IF raw[1] = "[" THEN whole(ParseArray(raw, 1), TRUE)
       ELSE IF raw[1] = "{" THEN whole(ParseObject(raw, 1), FALSE)
       ELSE IF raw[1] = "\"" THEN whole(ParseString(raw, 1), FALSE)
       ELSE IF raw = <<"null">> THEN whole([ok |-> TRUE, val |-> <<>>, next |-> 2], FALSE)
       ELSE whole(ParseNumber(raw, 1), FALSE)

\* ------------------------------------------------------------------ state

VARIABLES
    mounted,          \* TRUE once AddDistributor has rendered (its state exists)
    storageMode,      \* what the browser does with localStorage calls
    storage,          \* the item under STORAGE_KEY: [present, text]
    distributors,     \* useState: the record list
    fullName, phone, username, password, confirmPassword, selectedModule,
    errors,           \* useState: field -> message
    savedMessage,     \* useState
    pendingResets,    \* setTimeout callbacks of handleSave not yet run
    issued,           \* history: ids of the records loaded or created since load
    confirmation      \* history: what window.confirm last returned since load

formVars == << fullName, phone, username, password, confirmPassword,
               selectedModule, errors, savedMessage >>

vars == << mounted, storageMode, storage, distributors, formVars,
           pendingResets, issued, confirmation >>

\* localStorage as the browser may present it: working; refusing every
\* access (getItem and setItem throw); or readable with setItem throwing
\* (quota exceeded).
StorageModes == {"ok", "denied", "full"}

Absent == [present |-> FALSE, text |-> <<>>]

Item(text) == [present |-> TRUE, text |-> text]

Ids(list) == { list[i].id : i \in 1..Len(list) }

\* --------------------------------------------------------- load / persist

\* The useState initializer of distributors. threw: getItem throws.
LoadWrongFallback(item, threw) ==
    IF threw THEN SAMPLE
    ELSE IF ~item.present \/ item.text = <<>> THEN SAMPLE
    ELSE LET parsed == JSONParse(item.text) IN
         IF ~parsed.ok THEN <<>>
         ELSE IF parsed.isArray THEN parsed.val ELSE SAMPLE

LoadSeedsEmpty(item, threw) ==
    IF threw THEN SAMPLE
    ELSE IF ~item.present \/ item.text = <<>> THEN SAMPLE
    ELSE LET parsed == JSONParse(item.text) IN
         IF ~parsed.ok THEN SAMPLE
         ELSE IF parsed.isArray /\ parsed.val # <<>> THEN parsed.val ELSE SAMPLE

Load(item, threw) ==
    IF threw THEN SAMPLE
    ELSE IF ~item.present \/ item.text = <<>> THEN SAMPLE
    ELSE LET parsed == JSONParse(item.text) IN
         IF ~parsed.ok THEN SAMPLE
         ELSE IF parsed.isArray THEN parsed.val ELSE SAMPLE

\* The useEffect on [distributors]: setItem, its exception swallowed.
Persist(list) ==
    IF storageMode = "ok" THEN Item(Stringify(list)) ELSE storage

\* ------------------------------------------------------------------- form

Form ==
    [ fullName |-> fullName, phone |-> phone, username |-> username,
      password |-> password, confirmPassword |-> confirmPassword,
      selectedModule |-> selectedModule ]

NoErrors == <<>>

SavedText == "Distributor saved successfully."

\* resetForm's assignments.
FormReset ==
    /\ fullName' = <<>>
    /\ phone' = <<>>
    /\ username' = <<>>
    /\ password' = <<>>
    /\ confirmPassword' = <<>>
    /\ selectedModule' = <<>>
    /\ errors' = NoErrors
    /\ savedMessage' = ""

ErrorText(k, f) ==
    CASE k = "fullName" -> "Full name is required."
      [] k = "phone" -> "Phone number is required."
      [] k = "username" -> "Username is required."
      [] k = "password" -> "Password is required."
      [] k = "confirmPassword" ->
            IF f.confirmPassword = <<>> THEN "Confirm the password."
            ELSE "Passwords do not match."
      [] k = "selectedModule" -> "Select exactly one access module."

ValidateNoMatchCheck(f) ==
    LET keys ==
            {k \in {"fullName"} : Trim(f.fullName) = <<>>}
            \cup {k \in {"phone"} : Trim(f.phone) = <<>>}
            \cup {k \in {"username"} : Trim(f.username) = <<>>}
            \cup {k \in {"password"} : f.password = <<>>}
            \cup {k \in {"confirmPassword"} : f.confirmPassword = <<>>}
            \cup {k \in {"selectedModule"} : f.selectedModule = <<>>}
    IN [k \in keys |-> ErrorText(k, f)]

ValidateNoTrim(f) ==
    LET keys ==
            {k \in {"fullName"} : f.fullName = <<>>}
            \cup {k \in {"phone"} : f.phone = <<>>}
            \cup {k \in {"username"} : f.username = <<>>}
            \cup {k \in {"password"} : f.password = <<>>}
            \cup {k \in {"confirmPassword"} : f.confirmPassword = <<>>}
            \cup {k \in {"confirmPassword"} :
                    /\ f.password # <<>>
                    /\ f.confirmPassword # <<>>
                    /\ f.password # f.confirmPassword}
            \cup {k \in {"selectedModule"} : f.selectedModule = <<>>}
    IN [k \in keys |-> ErrorText(k, f)]

\* validate(): the field -> message object e.
Validate(f) ==
    LET keys ==
            {k \in {"fullName"} : Trim(f.fullName) = <<>>}
            \cup {k \in {"phone"} : Trim(f.phone) = <<>>}
            \cup {k \in {"username"} : Trim(f.username) = <<>>}
            \cup {k \in {"password"} : f.password = <<>>}
            \cup {k \in {"confirmPassword"} : f.confirmPassword = <<>>}
            \cup {k \in {"confirmPassword"} :
                    /\ f.password # <<>>
                    /\ f.confirmPassword # <<>>
                    /\ f.password # f.confirmPassword}
            \cup {k \in {"selectedModule"} : f.selectedModule = <<>>}
    IN [k \in keys |-> ErrorText(k, f)]

MaxOf(S) == CHOOSE m \in S : \A x \in S : x <= m

NextIdByLength(list) == Len(list) + 1

\* nextId of handleSave.
NextId(list) == IF Len(list) # 0 THEN MaxOf(Ids(list)) + 1 ELSE 1

\* newDist of handleSave.
NewDist(f, list) ==
    [ id       |-> NextId(list),
      fullName |-> Trim(f.fullName),
      phone    |-> Trim(f.phone),
      username |-> Trim(f.username),
      module   |-> f.selectedModule ]

\* ---------------------------------------------------------------- actions

\* AddDistributor renders for the first time in a page load (the page is
\* opened, or reloaded): every useState initializer runs, then the useEffect
\* that writes the list back. Timers of the page left behind are gone.
Mount ==
    /\ mounted' = TRUE
    /\ FormReset
    /\ pendingResets' = 0
    /\ confirmation' = "none"
    /\ distributors' = Load(storage, storageMode = "denied")
    /\ storage' = Persist(distributors')
    /\ issued' = Ids(distributors')
    /\ UNCHANGED storageMode

\* onChange of the Full Name input.
SetFullName(v) ==
    /\ mounted
    /\ fullName' = v
    /\ UNCHANGED << mounted, storageMode, storage, distributors, phone, username,
                    password, confirmPassword, selectedModule, errors,
                    savedMessage, pendingResets, issued, confirmation >>

\* onChange of the Phone Number input.
SetPhone(v) ==
    /\ mounted
    /\ phone' = v
    /\ UNCHANGED << mounted, storageMode, storage, distributors, fullName, username,
                    password, confirmPassword, selectedModule, errors,
                    savedMessage, pendingResets, issued, confirmation >>

\* onChange of the Username input.
SetUsername(v) ==
    /\ mounted
    /\ username' = v
    /\ UNCHANGED << mounted, storageMode, storage, distributors, fullName, phone,
                    password, confirmPassword, selectedModule, errors,
                    savedMessage, pendingResets, issued, confirmation >>

\* onChange of the Password input.
SetPassword(v) ==
    /\ mounted
    /\ password' = v
    /\ UNCHANGED << mounted, storageMode, storage, distributors, fullName, phone,
                    username, confirmPassword, selectedModule, errors,
                    savedMessage, pendingResets, issued, confirmation >>

\* onChange of the Confirm Password input.
SetConfirmPassword(v) ==
    /\ mounted
    /\ confirmPassword' = v
    /\ UNCHANGED << mounted, storageMode, storage, distributors, fullName, phone,
                    username, password, selectedModule, errors,
                    savedMessage, pendingResets, issued, confirmation >>

\* onClick of a RadioTile.
SelectModule(m) ==
    /\ mounted
    /\ m \in ACCESS_MODULES
    /\ selectedModule' = m
    /\ UNCHANGED << mounted, storageMode, storage, distributors, fullName, phone,
                    username, password, confirmPassword, errors,
                    savedMessage, pendingResets, issued, confirmation >>

\* A run of the change events above that leaves the inputs at f.
ChangeInputs(f) ==
    /\ mounted
    /\ f.selectedModule \in ACCESS_MODULES \cup {selectedModule}
    /\ fullName' = f.fullName
    /\ phone' = f.phone
    /\ username' = f.username
    /\ password' = f.password
    /\ confirmPassword' = f.confirmPassword
    /\ selectedModule' = f.selectedModule
    /\ UNCHANGED << mounted, storageMode, storage, distributors, errors,
                    savedMessage, pendingResets, issued, confirmation >>

\* The branch of handleSave taken when validate() reports nothing.
SaveRecordAppends(f) ==
    LET newDist == NewDist(f, distributors) IN
    /\ Len(distributors) < MaxRecords
    /\ newDist.id <= MaxId
    /\ pendingResets < MaxTimers
    /\ distributors' = distributors \o << newDist >>
    /\ storage' = Persist(distributors')
    /\ savedMessage' = SavedText
    /\ pendingResets' = pendingResets + 1
    /\ issued' = issued \cup {newDist.id}
    /\ UNCHANGED << fullName, phone, username, password, confirmPassword,
                    selectedModule, confirmation >>

SaveRecord(f) ==
    LET newDist == NewDist(f, distributors) IN
    /\ Len(distributors) < MaxRecords
    /\ newDist.id <= MaxId
    /\ pendingResets < MaxTimers
    /\ distributors' = << newDist >> \o distributors
    /\ storage' = Persist(distributors')
    /\ savedMessage' = SavedText
    /\ pendingResets' = pendingResets + 1
    /\ issued' = issued \cup {newDist.id}
    /\ UNCHANGED << fullName, phone, username, password, confirmPassword,
                    selectedModule, confirmation >>

\* onSubmit of the form.
HandleSave ==
    /\ mounted
    /\ LET e == Validate(Form) IN
       /\ errors' = e
       /\ IF DOMAIN e # {}
          THEN UNCHANGED << storage, distributors, fullName, phone, username,
                            password, confirmPassword, selectedModule,
                            savedMessage, pendingResets, issued, confirmation >>
          ELSE SaveRecord(Form)
    /\ UNCHANGED << mounted, storageMode >>

\* onClick of Cancel: resetForm.
Cancel ==
    /\ mounted
    /\ FormReset
    /\ UNCHANGED << mounted, storageMode, storage, distributors, pendingResets,
                    issued, confirmation >>

\* The setTimeout callback of handleSave runs: resetForm.
ResetTimeout ==
    /\ mounted
    /\ pendingResets > 0
    /\ pendingResets' = pendingResets - 1
    /\ FormReset
    /\ UNCHANGED << mounted, storageMode, storage, distributors, issued,
                    confirmation >>

Without(list, id) == SelectSeq(list, LAMBDA d : d.id # id)

DeleteUnconfirmed(id, confirmed) ==
    /\ mounted
    /\ id \in Ids(distributors)
    /\ confirmation' = IF confirmed THEN "confirmed" ELSE "declined"
    /\ distributors' = Without(distributors, id)
    /\ storage' = Persist(distributors')
    /\ UNCHANGED << mounted, storageMode, formVars, pendingResets, issued >>

DeleteFirst(id, confirmed) ==
    /\ mounted
    /\ id \in Ids(distributors)
    /\ confirmation' = IF confirmed THEN "confirmed" ELSE "declined"
    /\ IF ~confirmed
       THEN UNCHANGED << storage, distributors >>
       ELSE /\ distributors' = Tail(distributors)
            /\ storage' = Persist(distributors')
    /\ UNCHANGED << mounted, storageMode, formVars, pendingResets, issued >>

\* onClick of a record's Delete button; confirmed is what window.confirm
\* returns.
HandleDelete(id, confirmed) ==
    /\ mounted
    /\ id \in Ids(distributors)
    /\ confirmation' = IF confirmed THEN "confirmed" ELSE "declined"
    /\ IF ~confirmed
       THEN UNCHANGED << storage, distributors >>
       ELSE /\ distributors' = Without(distributors, id)
            /\ storage' = Persist(distributors')
    /\ UNCHANGED << mounted, storageMode, formVars, pendingResets, issued >>

\* --------------------------------------------------------- specifications

\* What localStorage may hold when the page is first opened: nothing, the
\* empty string, a truncated text, JSON that is not an array, an empty array.
InitialItems ==
    { Absent,
      Item(<<>>),
      Item(<<"[", "{", "\"", "id", "\"", ":", "1">>),
      Item(<<"{", "}">>),
      Item(<<"[", "]">>) }

\* Before the page is opened: no component state yet.
Init ==
    /\ mounted = FALSE
    /\ storageMode \in StorageModes
    /\ storage \in InitialItems
    /\ storageMode = "denied" => storage = Absent
    /\ distributors = <<>>
    /\ fullName = <<>>
    /\ phone = <<>>
    /\ username = <<>>
    /\ password = <<>>
    /\ confirmPassword = <<>>
    /\ selectedModule = <<>>
    /\ errors = NoErrors
    /\ savedMessage = ""
    /\ pendingResets = 0
    /\ issued = {}
    /\ confirmation = "none"

FilledForm(name, pass, confirm, module) ==
    [ fullName |-> name, phone |-> <<"1">>, username |-> <<"u">>,
      password |-> pass, confirmPassword |-> confirm, selectedModule |-> module ]

\* The inputs the user brings the form to.
TypedForms ==
    { FilledForm(<<" ", "a">>, <<"p">>, <<"p">>, <<"reports">>),
      FilledForm(<<"b", " ">>, <<"q">>, <<"q">>, <<"dailySales">>),
      FilledForm(<<" ">>, <<"p">>, <<"p">>, <<"reports">>),
      FilledForm(<<" ", "a">>, <<"p">>, <<"q">>, <<"reports">>) }

Next ==
    \/ Mount
    \/ \E f \in TypedForms : ChangeInputs(f)
    \/ HandleSave
    \/ Cancel
    \/ ResetTimeout
    \/ \E id \in 1..MaxId, confirmed \in BOOLEAN : HandleDelete(id, confirmed)

Spec == Init /\ [][Next]_vars

\* The form handlers one event at a time, on a page opened with nothing stored.
InitForm ==
    /\ Init
    /\ storageMode = "ok"
    /\ storage = Absent

\* One change event on one input.
FormEdit ==
    \/ \E v \in { <<" ">>, <<" ", "a">> } : SetFullName(v)
    \/ SetPhone(<<"1">>)
    \/ SetUsername(<<"u">>)
    \/ SetPassword(<<"p">>)
    \/ \E v \in { <<"p">>, <<"q">> } : SetConfirmPassword(v)
    \/ SelectModule(<<"reports">>)

NextForm ==
    \/ Mount
    \/ FormEdit
    \/ HandleSave
    \/ Cancel
    \/ ResetTimeout

SpecForm == InitForm /\ [][NextForm]_vars

\* handleSave on every form state over record lists the page can hold.
Texts == { <<>>, <<" ">>, <<" ", "a">> }

Passwords == { <<>>, <<"p">>, <<"q">> }

Record(id, module) ==
    [ id |-> id, fullName |-> <<"a">>, phone |-> <<"1">>, username |-> <<"u">>,
      module |-> module ]

HeldLists ==
    { <<>>,
      SAMPLE,
      << Record(2, <<"outlets">>) >>,
      << Record(2, <<"reports">>), SAMPLE[1] >>,
      << Record(3, <<"cashPayments">>), Record(1, <<"reports">>) >> }

InitSubmit ==
    /\ mounted = TRUE
    /\ storageMode = "ok"
    /\ distributors \in HeldLists
    /\ storage = Item(Stringify(distributors))
    /\ fullName \in Texts
    /\ phone \in Texts
    /\ username \in Texts
    /\ password \in Passwords
    /\ confirmPassword \in Passwords
    /\ selectedModule \in ACCESS_MODULES \cup { <<>> }
    /\ errors = NoErrors
    /\ savedMessage = ""
    /\ pendingResets = 0
    /\ issued = Ids(distributors)
    /\ confirmation = "none"

NextSubmit ==
    \/ HandleSave
    \/ Cancel
    \/ ResetTimeout

SpecSubmit == InitSubmit /\ [][NextSubmit]_vars

\* ----------------------------------------------------------------- claims

RequiredPresent(f) ==
    /\ Trim(f.fullName) # <<>>
    /\ Trim(f.phone) # <<>>
    /\ Trim(f.username) # <<>>
    /\ f.password # <<>>
    /\ f.confirmPassword # <<>>
    /\ f.selectedModule \in ACCESS_MODULES

ValidInput(f) == RequiredPresent(f) /\ f.password = f.confirmPassword

\* C1: a submit of a valid form adds exactly one record, at the front, with
\* an id above every id the list held (1 for an empty list) and the selected
\* module; the records held before follow it unchanged, in their order.
C1_SubmitAddsOneRecord ==
    [][ (HandleSave /\ ValidInput(Form)) =>
          /\ Len(distributors') = Len(distributors) + 1
          /\ \A i \in 1..Len(distributors) :
                distributors'[1].id > distributors[i].id
          /\ (distributors = <<>> => distributors'[1].id = 1)
          /\ distributors'[1].module = selectedModule
          /\ Tail(distributors') = distributors ]_vars

\* A submit has put a record with id 3 in front of a list that held id 2.
C1_Witness ==
    /\ savedMessage = SavedText
    /\ Len(distributors) = 2
    /\ distributors[1].id = 3
    /\ distributors[2].id = 2
    /\ distributors[1].module = selectedModule

\* C2: a submit with a required input empty (the three texts after trimming)
\* reports at least one error and leaves the list, and what is stored, alone.
C2_EmptyFieldBlocksSubmit ==
    [][ (HandleSave /\ ~RequiredPresent(Form)) =>
          /\ DOMAIN errors' # {}
          /\ distributors' = distributors
          /\ storage' = storage ]_vars

\* A submit was refused for a full name of white space alone.
C2_Witness ==
    /\ fullName = <<" ">>
    /\ DOMAIN errors = {"fullName"}
    /\ savedMessage = ""

\* C3 as stated: a submit with password # confirmPassword always reports an
\* error for confirmPassword and leaves the list alone.
C3_MismatchAlwaysFlagsConfirm ==
    [][ (HandleSave /\ password # confirmPassword) =>
          /\ "confirmPassword" \in DOMAIN errors'
          /\ distributors' = distributors ]_vars

\* C3 amended: a submit with password # confirmPassword reports an error and
\* leaves the list alone; the error is on confirmPassword when password is
\* not empty, and on password alone of the two when password is empty.
C3_MismatchBlocksSubmit ==
    [][ (HandleSave /\ password # confirmPassword) =>
          /\ DOMAIN errors' # {}
          /\ distributors' = distributors
          /\ (password # <<>> => "confirmPassword" \in DOMAIN errors')
          /\ (password = <<>> =>
                /\ "password" \in DOMAIN errors'
                /\ "confirmPassword" \notin DOMAIN errors') ]_vars

\* A submit was refused for two different non-empty passwords.
C3_Witness ==
    /\ password = <<"p">>
    /\ confirmPassword = <<"q">>
    /\ DOMAIN errors = {"confirmPassword"}
    /\ errors["confirmPassword"] = "Passwords do not match."

\* C4: a confirmed delete of id X takes the record with id X out of the list
\* and nothing else: the others stay, as they were and in their order, and
\* the list is one shorter.
C4_DeleteRemovesExactlyThatRecord ==
    [][ \A X \in 1..MaxId : HandleDelete(X, TRUE) =>
          /\ \E k \in 1..Len(distributors) :
                /\ distributors[k].id = X
                /\ distributors' = SubSeq(distributors, 1, k - 1)
                                   \o SubSeq(distributors, k + 1, Len(distributors))
          /\ \A i \in 1..Len(distributors') : distributors'[i].id # X ]_vars

\* The record with id 2 was deleted from between those with ids 3 and 1.
C4_Witness ==
    /\ confirmation = "confirmed"
    /\ issued = {1, 2, 3}
    /\ Len(distributors) = 2
    /\ distributors[1].id = 3
    /\ distributors[2].id = 1

RecordsOk(list) ==
    /\ \A i, j \in 1..Len(list) : i # j => list[i].id # list[j].id
    /\ \A i \in 1..Len(list) : list[i].module \in ACCESS_MODULES

\* C5: once the page has loaded, the records of the list, and those of the
\* array in storage, have pairwise different ids and a module of
\* ACCESS_MODULES.
C5_UniqueIdsKnownModules ==
    mounted =>
        /\ RecordsOk(distributors)
        /\ LET parsed == JSONParse(storage.text) IN
           (storage.present /\ parsed.ok /\ parsed.isArray) => RecordsOk(parsed.val)

\* A list loaded from what an earlier page load stored (no id 1, nothing
\* deleted since the load), with a record added to it.
C5_Witness ==
    /\ mounted
    /\ confirmation = "none"
    /\ issued = {2, 3}
    /\ Len(distributors) = 2
    /\ storage = Item(Stringify(distributors))

\* C6: when the writes to storage succeed, reloading the page gives back the
\* list the page held: the same records, in the same order.
C6_ReloadGivesSameList ==
    [][ (mounted /\ storageMode = "ok" /\ Mount) =>
          distributors' = distributors ]_vars

\* The page was reloaded on the stored one-record list of id 2.
C6_Witness ==
    /\ mounted
    /\ storageMode = "ok"
    /\ confirmation = "none"
    /\ issued = {2}
    /\ Len(distributors) = 1
    /\ pendingResets = 0

\* C7: load gives SAMPLE when the key is absent, when getItem throws and when
\* the text does not parse; what it gives is SAMPLE or the parsed array.
C7_LoadFallsBackToSeed ==
    [][ Mount =>
          LET threw == storageMode = "denied"
              parsed == JSONParse(storage.text)
          IN /\ (threw \/ ~storage.present \/ ~parsed.ok) => distributors' = SAMPLE
             /\ \/ distributors' = SAMPLE
                \/ /\ ~threw
                   /\ storage.present
                   /\ parsed.ok
                   /\ parsed.isArray
                   /\ distributors' = parsed.val ]_vars

\* The page loaded on a truncated text, which is still stored.
C7_Witness ==
    /\ mounted
    /\ storageMode = "full"
    /\ storage.present
    /\ storage.text # <<>>
    /\ ~JSONParse(storage.text).ok
    /\ distributors = SAMPLE

RecordLost ==
    \E i \in 1..Len(distributors) :
        \A j \in 1..Len(distributors') : distributors'[j] # distributors[i]

\* C8: a declined delete leaves the list and what is stored as they were, and
\* on a loaded page only a confirmed delete takes a record out of the list.
C8_DeleteNeedsConfirmation ==
    [][ /\ \A X \in 1..MaxId : HandleDelete(X, FALSE) =>
              /\ distributors' = distributors
              /\ storage' = storage
        /\ (RecordLost /\ ~Mount) => \E X \in 1..MaxId : HandleDelete(X, TRUE) ]_vars

\* A delete was declined on a list of three records, all still there.
C8_Witness ==
    /\ confirmation = "declined"
    /\ Len(distributors) = 3
    /\ issued = Ids(distributors)

\* An event of the user on the form.
UserEvent == FormEdit \/ HandleSave \/ Cancel

\* C9 as stated: while a reset scheduled by a submit is pending, no user
\* event on the form takes place.
C9_NoEventBeforeReset ==
    [][ pendingResets > 0 => ~UserEvent ]_vars

\* The step a successful submit takes.
Created == HandleSave /\ Len(distributors') = Len(distributors) + 1

\* C10 as stated: a new record's id is above the id of every record loaded
\* or created before it, deleted or not.
C10_IdsNeverReused ==
    [][ Created => \A i \in issued : distributors'[1].id > i ]_vars

\* C10 amended: a new record's id is one more than the largest id in the
\* list at that moment (1 for an empty list), so above every id in the list.
C10_IdsAboveCurrentList ==
    [][ Created =>
          /\ \A i \in Ids(distributors) : distributors'[1].id > i
          /\ distributors = <<>> => distributors'[1].id = 1
          /\ distributors # <<>> => distributors'[1].id - 1 \in Ids(distributors) ]_vars

\* A delete was confirmed since the load and every id issued since is in the
\* list: the deleted record's id was given to a later record.
C10_Witness ==
    /\ mounted
    /\ confirmation = "confirmed"
    /\ savedMessage = SavedText
    /\ issued # {}
    /\ issued = Ids(distributors)

====
